---- MODULE Spec2Model ----
(***************************************************************************)
(* A model of the double-ended priority queue of depq.py: the array-backed *)
(* min-max heap (self.pq), the entry index (self.entry_finder), the live   *)
(* count (self.n_items), the sequence counter and the bounded-capacity     *)
(* eviction policy of DEPQ.push.  Array indices are the 0-based indices of *)
(* the source; At and Swap translate them to TLA+ sequences.               *)
(***************************************************************************)
EXTENDS Integers, Sequences, FiniteSets, TLC

\* ------------------------------------------------------------------ bounds
\* Spec: payloads, priorities, pushes per run, capacities 1..MaxCap.
NumItems == 3
NumPriorities == 2
MaxCount == 5
MaxCap == 2
\* SpecRoundTrip: pushes per run and priorities.
RoundTripLen == 9
RoundTripPriorities == 2
\* SpecFill: capacities 1..FillCap, pushes per run and priorities.
FillCap == 9
FillLen == 11
FillPriorities == 2
\* SpecConstruct: integer capacities -ConstructCap..ConstructCap, pushes per run.
ConstructCap == 2
ConstructLen == 3
\* SpecSamePriority: pushes per run.
SamePriorityLen == 20

ItemNames == <<"a", "b", "c", "d", "e", "f", "g", "h", "i", "j", "k", "l",
               "m", "n", "o", "p", "q", "r", "s", "t", "u", "v", "w", "x",
               "y", "z">>
Items == {ItemNames[i] : i \in 1..NumItems}
Priorities == 1..NumPriorities

\* ------------------------------------------------------- entries (PQItem)
Infinity == 1000000
REMOVED == "<removed>"
None == <<>>

PQItem(priority, count, data) ==
    [priority |-> priority, count |-> count, data |-> data]

maximum == PQItem(Infinity, -1, "None")
minimum == PQItem(-Infinity, -1, "None")

\* dataclass(order=True): the generated comparisons compare the tuples
\* (priority, count); data is excluded (compare=False).
PQItem_lt_priority(a, b) == a.priority < b.priority

PQItem_lt(a, b) ==
    \/ a.priority < b.priority
    \/ (a.priority = b.priority /\ a.count < b.count)

PQItem_gt_priority(a, b) == a.priority > b.priority

PQItem_gt(a, b) ==
    \/ a.priority > b.priority
    \/ (a.priority = b.priority /\ a.count > b.count)

PQItem_eq(a, b) == a.priority = b.priority /\ a.count = b.count

\* elements.index(min(elements)), 0-based: the first position holding a
\* least element.
IndexOfMin(elements) ==
    LET least(i) == \A j \in 1..Len(elements) : ~PQItem_lt(elements[j], elements[i])
    IN (CHOOSE i \in 1..Len(elements) :
            least(i) /\ \A j \in 1..(i - 1) : ~PQItem_eq(elements[j], elements[i])) - 1

\* elements.index(max(elements)), 0-based.
IndexOfMax(elements) ==
    LET greatest(i) == \A j \in 1..Len(elements) : ~PQItem_gt(elements[j], elements[i])
    IN (CHOOSE i \in 1..Len(elements) :
            greatest(i) /\ \A j \in 1..(i - 1) : ~PQItem_eq(elements[j], elements[i])) - 1

\* ------------------------------------------------------------ heap engine
At(h, i) == h[i + 1]

Swap(h, i, j) == [h EXCEPT ![i + 1] = h[j + 1], ![j + 1] = h[i + 1]]

\* math.ceil(index/2)-1, for index >= -1
ParentOf(index) == ((index + 1) \div 2) - 1

\* math.floor(math.log2(n)), for n >= 1
RECURSIVE FloorLog2(_)
FloorLog2(n) == IF n <= 1 THEN 0 ELSE 1 + FloorLog2(n \div 2)

\* The while loop of _minify_up: index is not advanced after a swap.
RECURSIVE _minify_up_loop(_, _, _)
_minify_up_loop(h, index, grand_parent) ==
    IF grand_parent >= 0 /\ PQItem_gt(At(h, grand_parent), At(h, index))
    THEN _minify_up_loop(Swap(h, grand_parent, index), index,
                        ParentOf(ParentOf(grand_parent)))
    ELSE h

_minify_up(h, index) == _minify_up_loop(h, index, ParentOf(ParentOf(index)))

RECURSIVE _maxify_up_loop(_, _, _)
_maxify_up_loop(h, index, grand_parent) ==
    IF grand_parent >= 0 /\ PQItem_lt(At(h, grand_parent), At(h, index))
    THEN _maxify_up_loop(Swap(h, grand_parent, index), index,
                        ParentOf(ParentOf(grand_parent)))
    ELSE h

_maxify_up(h, index) == _maxify_up_loop(h, index, ParentOf(ParentOf(index)))

_heappush_minlevel(h, index) ==
    LET parent == ParentOf(index)
    IN IF parent >= 0
       THEN IF PQItem_lt(At(h, parent), At(h, index))
            THEN _maxify_up(Swap(h, parent, index), parent)
            ELSE _minify_up(h, index)
       ELSE h

_heappush_maxlevel(h, index) ==
    LET parent == ParentOf(index)
    IN IF parent >= 0
       THEN IF PQItem_gt(At(h, parent), At(h, index))
            THEN _minify_up(Swap(h, parent, index), parent)
            ELSE _maxify_up(h, index)
       ELSE h

_heappush(h, value) ==
    LET element_count == Len(h) + 1
        level == FloorLog2(element_count)
    IN IF level % 2 = 0
       THEN _heappush_minlevel(Append(h, value), element_count - 1)
       ELSE _heappush_maxlevel(Append(h, value), element_count - 1)

\* Lines 218-221 of _minify_down: the swap with the chosen grandchild m and
\* the repair against h[m // 2].
_minify_down_swap(h, index, m) ==
    LET h1 == Swap(h, index, m)
        parent == m \div 2
    IN IF PQItem_gt(At(h1, m), At(h1, parent))
       THEN Swap(h1, m, parent)
       ELSE h1

RECURSIVE _minify_down(_, _)
_minify_down(h, index) ==
    LET left_index == 2 * index + 1
        right_index == 2 * index + 2
        orMax(i) == IF i < Len(h) THEN At(h, i) ELSE maximum
    IN IF ~(Len(h) > 2 * left_index + 1)
       THEN LET elements == <<At(h, index), orMax(left_index), orMax(right_index)>>
                min_index == IndexOfMin(elements)
            IN IF min_index # 0
               THEN Swap(h, index, min_index - 1 + left_index)
               ELSE h
       ELSE LET gc == <<2 * left_index + 1, 2 * left_index + 2,
                        2 * right_index + 1, 2 * right_index + 2>>
                elements == <<At(h, index), orMax(gc[1]), orMax(gc[2]),
                              orMax(gc[3]), orMax(gc[4])>>
                min_index == IndexOfMin(elements)
            IN IF min_index # 0
               THEN _minify_down(_minify_down_swap(h, index, gc[min_index]),
                                 gc[min_index])
               ELSE h

\* Lines 259-262 of _maxify_down.
_maxify_down_swap(h, index, m) ==
    LET h1 == Swap(h, index, m)
        parent == m \div 2
    IN IF PQItem_lt(At(h1, m), At(h1, parent))
       THEN Swap(h1, m, parent)
       ELSE h1

RECURSIVE _maxify_down(_, _)
_maxify_down(h, index) ==
    LET left_index == 2 * index + 1
        right_index == 2 * index + 2
        orMin(i) == IF i < Len(h) THEN At(h, i) ELSE minimum
    IN IF ~(Len(h) > 2 * left_index + 1)
       THEN LET elements == <<At(h, index), orMin(left_index), orMin(right_index)>>
                max_index == IndexOfMax(elements)
            IN IF max_index # 0
               THEN Swap(h, index, max_index - 1 + left_index)
               ELSE h
       ELSE LET gc == <<2 * left_index + 1, 2 * left_index + 2,
                        2 * right_index + 1, 2 * right_index + 2>>
                elements == <<At(h, index), orMin(gc[1]), orMin(gc[2]),
                              orMin(gc[3]), orMin(gc[4])>>
                max_index == IndexOfMax(elements)
            IN IF max_index # 0
               THEN _maxify_down(_maxify_down_swap(h, index, gc[max_index]),
                                 gc[max_index])
               ELSE h

\* _heappop_min on a non-empty array: the popped entry and the array left.
_heappop_min(h) ==
    LET swapped == Swap(h, 0, Len(h) - 1)
        return_value == swapped[Len(h)]
        rest == SubSeq(swapped, 1, Len(h) - 1)
    IN [entry |-> return_value,
        pq |-> IF Len(rest) # 0 THEN _minify_down(rest, 0) ELSE rest]

\* _heappop_max on a non-empty array.
_heappop_max(h) ==
    IF Len(h) = 1
    THEN [entry |-> h[1], pq |-> <<>>]
    ELSE LET right == IF 2 < Len(h) THEN At(h, 2) ELSE minimum
             elements == <<minimum, At(h, 1), right>>
             max_index == IndexOfMax(elements)
             swapped == Swap(h, max_index, Len(h) - 1)
             return_value == swapped[Len(h)]
             rest == SubSeq(swapped, 1, Len(h) - 1)
         IN [entry |-> return_value,
             pq |-> IF Len(rest) > 1 /\ max_index < Len(rest)
                    THEN _maxify_down(rest, max_index)
                    ELSE rest]

\* _pop_min: pops until a live entry comes out; raised when the array runs
\* out (the entries popped on the way stay popped).
_pop_min_entry_any(r) == [raised |-> FALSE, entry |-> r.entry, pq |-> r.pq]

RECURSIVE _pop_min(_)
\* Lines 94-95: r is what _heappop_min returned.
_pop_min_entry(r) ==
    IF r.entry.data # REMOVED
    THEN [raised |-> FALSE, entry |-> r.entry, pq |-> r.pq]
    ELSE _pop_min(r.pq)

_pop_min(h) ==
    IF Len(h) = 0
    THEN [raised |-> TRUE, entry |-> minimum, pq |-> h]
    ELSE _pop_min_entry(_heappop_min(h))

_pop_max_entry_any(r) == [raised |-> FALSE, entry |-> r.entry, pq |-> r.pq]

RECURSIVE _pop_max(_)
\* Lines 108-109: r is what _heappop_max returned.
_pop_max_entry(r) ==
    IF r.entry.data # REMOVED
    THEN [raised |-> FALSE, entry |-> r.entry, pq |-> r.pq]
    ELSE _pop_max(r.pq)

_pop_max(h) ==
    IF Len(h) = 0
    THEN [raised |-> TRUE, entry |-> minimum, pq |-> h]
    ELSE _pop_max_entry(_heappop_max(h))

\* _peek_min / _peek_max: pop the live extremum and push it back.
\* Lines 119-120 and 130-131: r is what _pop_min / _pop_max returned.
_peek_push_back(r) ==
    IF r.raised THEN r
    ELSE [raised |-> FALSE, entry |-> r.entry, pq |-> _heappush(r.pq, r.entry)]

_peek_min(h) == _peek_push_back(_pop_min(h))

_peek_max(h) == _peek_push_back(_pop_max(h))

\* ------------------------------------------------------------ DEPQ facade
VARIABLES pq, entry_finder, counter, n_items, maxlen, mode,
          last, live, pushed, popped

vars == <<pq, entry_finder, counter, n_items, maxlen, mode,
          last, live, pushed, popped>>

\* The mutable fields of a DEPQ instance, as the methods below transform them.
Self == [pq |-> pq, entry_finder |-> entry_finder,
         counter |-> counter, n_items |-> n_items]

EmptyIndex == [x \in {} |-> minimum]

\* dict.pop(item) / del dict[item]
DictWithout(d, item) == [x \in (DOMAIN d) \ {item} |-> d[x]]

\* dict[item] = entry
DictWith(d, item, entry) ==
    [x \in (DOMAIN d) \cup {item} |-> IF x = item THEN entry ELSE d[x]]

\* entry.data = self.REMOVED: the entry object is shared with the array, and
\* its count identifies it.
Tombstone_drop(h, entry) == SelectSeq(h, LAMBDA e : e.count # entry.count)

Tombstone(h, entry) ==
    [i \in 1..Len(h) |->
        IF h[i].count = entry.count THEN [h[i] EXCEPT !.data = REMOVED] ELSE h[i]]

remove_keeps_count(self, item) ==
    IF item \notin DOMAIN self.entry_finder
    THEN [raised |-> TRUE, self |-> self]
    ELSE [raised |-> FALSE,
          self |-> [self EXCEPT
                      !.entry_finder = DictWithout(self.entry_finder, item),
                      !.pq = Tombstone(self.pq, self.entry_finder[item])]]

remove(self, item) ==
    IF item \notin DOMAIN self.entry_finder
    THEN [raised |-> TRUE, self |-> self]
    ELSE [raised |-> FALSE,
          self |-> [self EXCEPT
                      !.entry_finder = DictWithout(self.entry_finder, item),
                      !.pq = Tombstone(self.pq, self.entry_finder[item]),
                      !.n_items = self.n_items - 1]]

pop_min_keeps_index(self) ==
    LET r == _pop_min(self.pq)
    IN IF r.raised
       THEN [raised |-> TRUE, value |-> "None", self |-> [self EXCEPT !.pq = r.pq]]
       ELSE [raised |-> FALSE, value |-> r.entry.data,
             self |-> [self EXCEPT !.pq = r.pq, !.n_items = self.n_items - 1]]

\* Lines 87-89 and 101-103: r is what _pop_min / _pop_max returned, value the
\* payload returned.  The del raises KeyError after the decrement when the
\* popped payload is not indexed.
pop_entry(self, r) ==
    IF r.raised
    THEN [raised |-> TRUE, value |-> "None", self |-> [self EXCEPT !.pq = r.pq]]
    ELSE IF r.entry.data \notin DOMAIN self.entry_finder
         THEN [raised |-> TRUE, value |-> "None",
               self |-> [self EXCEPT !.pq = r.pq, !.n_items = self.n_items - 1]]
         ELSE [raised |-> FALSE, value |-> r.entry.data,
               self |-> [self EXCEPT
                           !.pq = r.pq,
                           !.n_items = self.n_items - 1,
                           !.entry_finder = DictWithout(self.entry_finder, r.entry.data)]]

pop_min(self) == pop_entry(self, _pop_min(self.pq))

pop_max_keeps_index(self) ==
    LET r == _pop_max(self.pq)
    IN IF r.raised
       THEN [raised |-> TRUE, value |-> "None", self |-> [self EXCEPT !.pq = r.pq]]
       ELSE [raised |-> FALSE, value |-> r.entry.data,
             self |-> [self EXCEPT !.pq = r.pq, !.n_items = self.n_items - 1]]

pop_max(self) == pop_entry(self, _pop_max(self.pq))

\* Lines 114 and 125: r is what _peek_min / _peek_max returned.
peek_entry(self, r) ==
    [raised |-> r.raised,
     value |-> IF r.raised THEN "None" ELSE r.entry.data,
     self |-> [self EXCEPT !.pq = r.pq]]

peek_min(self) == peek_entry(self, _peek_min(self.pq))

peek_max(self) == peek_entry(self, _peek_max(self.pq))

\* Lines 72-76 of push: the insertion of a fresh entry.
push_insert(self, item, priority) ==
    LET count == self.counter
        entry == PQItem(priority, count, item)
    IN [self EXCEPT
          !.counter = count + 1,
          !.entry_finder = DictWith(self.entry_finder, item, entry),
          !.pq = _heappush(self.pq, entry),
          !.n_items = self.n_items + 1]

\* Line 61 of push: the capacity test.
at_capacity_gt(self, cap) == cap # None /\ self.n_items > cap[1]

at_capacity(self, cap) == cap # None /\ self.n_items >= cap[1]

\* Lines 63 and 68 of push: whether the incoming priority beats the entry
\* the peek returned.
good_enough_ties(md, priority, entry) ==
    IF md = "max" THEN priority >= entry.priority ELSE priority <= entry.priority

good_enough(md, priority, entry) ==
    IF md = "max" THEN priority > entry.priority ELSE priority < entry.priority

\* push returns the path taken in branch ("insert", "update", "evict",
\* "drop", "raise") and, on the evict path, the payload pop_min / pop_max
\* returned in evicted.

\* Lines 64 / 69 and 72-76: ev is what pop_min / pop_max returned.
push_evict(ev, item, priority) ==
    IF ev.raised
    THEN [raised |-> TRUE, branch |-> "raise", evicted |-> "None", self |-> ev.self]
    ELSE [raised |-> FALSE, branch |-> "evict", evicted |-> ev.value,
          self |-> push_insert(ev.self, item, priority)]

\* Lines 63-71: s2 is the queue after the peek, pk what the peek returned.
push_full(s2, pk, item, priority, md) ==
    IF pk.raised
    THEN [raised |-> TRUE, branch |-> "raise", evicted |-> "None", self |-> s2]
    ELSE IF good_enough(md, priority, pk.entry)
         THEN push_evict(IF md = "max" THEN pop_min(s2) ELSE pop_max(s2),
                         item, priority)
         ELSE [raised |-> FALSE, branch |-> "drop", evicted |-> "None", self |-> s2]

\* Lines 63 and 68: the peek leaves its array in place of that of s1.
push_peeked(s1, pk, item, priority, md) ==
    push_full([s1 EXCEPT !.pq = pk.pq], pk, item, priority, md)

\* Lines 61-76: s1 is the queue after the removal of the live entry, if any.
push_removed(s1, plain, item, priority, cap, md) ==
    IF at_capacity(s1, cap)
    THEN push_peeked(s1, IF md = "max" THEN _peek_min(s1.pq) ELSE _peek_max(s1.pq),
                     item, priority, md)
    ELSE [raised |-> FALSE, branch |-> plain, evicted |-> "None",
          self |-> push_insert(s1, item, priority)]

push(self, item, priority, cap, md) ==
    IF item \in DOMAIN self.entry_finder
    THEN push_removed(remove(self, item).self, "update", item, priority, cap, md)
    ELSE push_removed(self, "insert", item, priority, cap, md)

\* items(): the (priority, count, data) triples of the indexed entries, sorted
\* by the entries' ordering.
RECURSIVE SortedEntries(_)
SortedEntries(S) ==
    IF S = {} THEN <<>>
    ELSE LET m == CHOOSE e \in S : \A f \in S : ~PQItem_lt(f, e)
         IN <<m>> \o SortedEntries(S \ {m})

items(self) ==
    LET sorted == SortedEntries({self.entry_finder[x] : x \in DOMAIN self.entry_finder})
    IN [i \in 1..Len(sorted) |-> <<sorted[i].priority, sorted[i].count, sorted[i].data>>]

\* ---------------------------------------------------------------- actions
Modes == {"max", "min"}
Configs == {<<None, "max">>} \cup ({<<k>> : k \in 1..MaxCap} \X Modes)

Outcome(r) == IF r.raised THEN "KeyError" ELSE "None"

Install(self) ==
    /\ pq' = self.pq
    /\ entry_finder' = self.entry_finder
    /\ counter' = self.counter
    /\ n_items' = self.n_items

InitQueue ==
    /\ pq = <<>>
    /\ entry_finder = EmptyIndex
    /\ counter = 0
    /\ n_items = 0
    /\ last = [op |-> "init", item |-> "None", priority |-> 0,
               result |-> "None", branch |-> "None"]
    /\ live = EmptyIndex
    /\ pushed = <<>>
    /\ popped = <<>>

Init ==
    /\ InitQueue
    /\ \E c \in Configs : maxlen = c[1] /\ mode = c[2]

PushResult(item, priority, r) ==
    /\ Install(r.self)
    /\ last' = [op |-> "push", item |-> item, priority |-> priority,
                result |-> Outcome(r), branch |-> r.branch]
    /\ live' = IF r.branch \in {"insert", "update", "evict"}
               THEN DictWith(DictWithout(live, r.evicted), item, priority)
               ELSE IF r.branch = "drop" THEN live
               ELSE DictWithout(live, item)
    /\ UNCHANGED <<maxlen, mode>>

PushOp(item, priority) ==
    PushResult(item, priority, push(Self, item, priority, maxlen, mode))

RemoveResult(item, r) ==
    /\ Install(r.self)
    /\ last' = [op |-> "remove", item |-> item, priority |-> 0,
                result |-> Outcome(r), branch |-> "None"]
    /\ live' = IF r.raised THEN live ELSE DictWithout(live, item)
    /\ UNCHANGED <<maxlen, mode>>

RemoveOp(item) == RemoveResult(item, remove(Self, item))

PopOp(name, r) ==
    /\ Install(r.self)
    /\ last' = [op |-> name, item |-> "None", priority |-> 0,
                result |-> IF r.raised THEN "KeyError" ELSE r.value,
                branch |-> "None"]
    /\ live' = IF r.raised THEN live ELSE DictWithout(live, r.value)
    /\ UNCHANGED <<maxlen, mode>>

PeekOp(name, r) ==
    /\ Install(r.self)
    /\ last' = [op |-> name, item |-> "None", priority |-> 0,
                result |-> IF r.raised THEN "KeyError" ELSE r.value,
                branch |-> "None"]
    /\ UNCHANGED <<live, maxlen, mode>>

\* Spec: any caller, any configuration.
Push ==
    /\ counter < MaxCount
    /\ \E item \in Items, priority \in Priorities : PushOp(item, priority)
    /\ UNCHANGED <<pushed, popped>>

Remove == \E item \in Items : RemoveOp(item) /\ UNCHANGED <<pushed, popped>>

PopMin == PopOp("pop_min", pop_min(Self)) /\ UNCHANGED <<pushed, popped>>

PopMax == PopOp("pop_max", pop_max(Self)) /\ UNCHANGED <<pushed, popped>>

PeekMin == PeekOp("peek_min", peek_min(Self)) /\ UNCHANGED <<pushed, popped>>

PeekMax == PeekOp("peek_max", peek_max(Self)) /\ UNCHANGED <<pushed, popped>>

Next == Push \/ Remove \/ PopMin \/ PopMax \/ PeekMin \/ PeekMax

Spec == Init /\ [][Next]_vars

\* SpecRoundTrip: a caller that pushes distinct payloads into a fresh
\* unbounded queue and then only pops, always from the same end.  pushed
\* records the (payload, priority) pairs, popped what the pops returned.
InitRoundTrip == InitQueue /\ maxlen = None /\ mode = "max"

RoundTripPush ==
    /\ popped = <<>>
    /\ Len(pushed) < RoundTripLen
    /\ \E priority \in 1..RoundTripPriorities :
          /\ PushOp(ItemNames[Len(pushed) + 1], priority)
          /\ pushed' = Append(pushed, <<ItemNames[Len(pushed) + 1], priority>>)
    /\ UNCHANGED popped

RoundTripPopMin ==
    /\ Len(popped) < Len(pushed)
    /\ popped = <<>> \/ last.op = "pop_min"
    /\ PopOp("pop_min", pop_min(Self))
    /\ popped' = Append(popped, last'.result)
    /\ UNCHANGED pushed

RoundTripPopMax ==
    /\ Len(popped) < Len(pushed)
    /\ popped = <<>> \/ last.op = "pop_max"
    /\ PopOp("pop_max", pop_max(Self))
    /\ popped' = Append(popped, last'.result)
    /\ UNCHANGED pushed

NextRoundTrip == RoundTripPush \/ RoundTripPopMin \/ RoundTripPopMax

SpecRoundTrip == InitRoundTrip /\ [][NextRoundTrip]_vars

\* SpecFill: a caller that only pushes distinct payloads into a fresh
\* bounded queue.
InitFill ==
    /\ InitQueue
    /\ \E k \in 1..FillCap : maxlen = <<k>>
    /\ mode \in Modes

FillPush ==
    /\ Len(pushed) < FillLen
    /\ \E priority \in 1..FillPriorities :
          /\ PushOp(ItemNames[Len(pushed) + 1], priority)
          /\ pushed' = Append(pushed, <<ItemNames[Len(pushed) + 1], priority>>)
    /\ UNCHANGED popped

NextFill == FillPush

SpecFill == InitFill /\ [][NextFill]_vars

\* SpecSamePriority: a caller that pushes distinct payloads, all with
\* priority 0, into a fresh unbounded queue and then only pops, always from
\* the same end.
InitSamePriority == InitQueue /\ maxlen = None /\ mode = "max"

SamePriorityPush ==
    /\ popped = <<>>
    /\ Len(pushed) < SamePriorityLen
    /\ PushOp(ItemNames[Len(pushed) + 1], 0)
    /\ pushed' = Append(pushed, <<ItemNames[Len(pushed) + 1], 0>>)
    /\ UNCHANGED popped

SamePriorityPopMin ==
    /\ Len(popped) < Len(pushed)
    /\ popped = <<>> \/ last.op = "pop_min"
    /\ PopOp("pop_min", pop_min(Self))
    /\ popped' = Append(popped, last'.result)
    /\ UNCHANGED pushed

SamePriorityPopMax ==
    /\ Len(popped) < Len(pushed)
    /\ popped = <<>> \/ last.op = "pop_max"
    /\ PopOp("pop_max", pop_max(Self))
    /\ popped' = Append(popped, last'.result)
    /\ UNCHANGED pushed

NextSamePriority == SamePriorityPush \/ SamePriorityPopMin \/ SamePriorityPopMax

SpecSamePriority == InitSamePriority /\ [][NextSamePriority]_vars

\* ----------------------------------------------------------- construction
\* The arguments of DEPQ(maxlen, mode): maxlen is None, an int or a value of
\* another type (2.0), tagged with its type for the isinstance test.
MaxlenArgs ==
    {[type |-> "NoneType", value |-> 0], [type |-> "float", value |-> 2]}
        \cup {[type |-> "int", value |-> k] : k \in (-ConstructCap)..ConstructCap}
ModeArgs == {"max", "min", "mid"}

\* __init__: error names the exception raised; on success self, maxlen and
\* mode are the fields of the instance.
__init__(arg, md) ==
    IF arg.type # "NoneType" /\ arg.type # "int"
    THEN [raised |-> TRUE, error |-> "TypeError"]
    ELSE IF md \notin {"max", "min"}
         THEN [raised |-> TRUE, error |-> "ValueError"]
         ELSE [raised |-> FALSE, error |-> "None",
               self |-> [pq |-> <<>>, entry_finder |-> EmptyIndex,
                         counter |-> 0, n_items |-> 0],
               maxlen |-> IF arg.type = "NoneType" THEN None ELSE <<arg.value>>,
               mode |-> md]

\* SpecConstruct: a caller that constructs a queue with any arguments and,
\* when the constructor returns an instance, pushes to it and pops from it.
\* Before the constructor call and after a failed one there is no instance.
InitConstruct == InitQueue /\ maxlen = None /\ mode = "max"

Constructed ==
    /\ last.op # "init"
    /\ ~(last.op = "__init__" /\ last.result # "None")

ConstructResult(r) ==
    /\ last' = [op |-> "__init__", item |-> "None", priority |-> 0,
                result |-> r.error, branch |-> "None"]
    /\ IF r.raised
       THEN UNCHANGED <<pq, entry_finder, counter, n_items, maxlen, mode>>
       ELSE /\ Install(r.self)
            /\ maxlen' = r.maxlen
            /\ mode' = r.mode
    /\ UNCHANGED <<live, pushed, popped>>

Construct ==
    /\ last.op = "init"
    /\ \E arg \in MaxlenArgs, md \in ModeArgs : ConstructResult(__init__(arg, md))

ConstructPush ==
    /\ Constructed
    /\ Len(pushed) < ConstructLen
    /\ \E item \in Items, priority \in Priorities :
          /\ PushOp(item, priority)
          /\ pushed' = Append(pushed, <<item, priority>>)
    /\ UNCHANGED popped

ConstructPopMin ==
    /\ Constructed
    /\ PopOp("pop_min", pop_min(Self))
    /\ UNCHANGED <<pushed, popped>>

NextConstruct == Construct \/ ConstructPush \/ ConstructPopMin

SpecConstruct == InitConstruct /\ [][NextConstruct]_vars

\* ------------------------------------------------------------- live view
\* live is the caller's view of the queue: the payloads pushed and admitted
\* and not since removed, popped or evicted, each with the priority of its
\* latest push.
LivePriorities == {live[x] : x \in DOMAIN live}
LiveMin == CHOOSE p \in LivePriorities : \A q \in LivePriorities : p <= q
LiveMax == CHOOSE p \in LivePriorities : \A q \in LivePriorities : p >= q

Payloads == {ItemNames[i] : i \in DOMAIN ItemNames}
Tombstones(h) == {i \in 1..Len(h) : h[i].data = REMOVED}
NonTombstoned(h) == {i \in 1..Len(h) : h[i].data # REMOVED}
AtCapacity == maxlen # None /\ maxlen[1] > 0 /\ n_items = maxlen[1]

\* The payloads that repeated pop_min / pop_max calls return until one fails.
RECURSIVE DrainMin(_)
DrainMin(self) ==
    LET r == pop_min(self)
    IN IF r.raised THEN <<>> ELSE <<r.value>> \o DrainMin(r.self)

RECURSIVE DrainMax(_)
DrainMax(self) ==
    LET r == pop_max(self)
    IN IF r.raised THEN <<>> ELSE <<r.value>> \o DrainMax(r.self)

\* ------------------------------------------------------------------ claims

\* C1: whenever some entry is live, pop_min and peek_min succeed and return a
\* payload whose priority is the least live priority.
C1_MinIsLiveMinimum ==
    DOMAIN live # {} =>
        \A r \in {pop_min(Self), peek_min(Self)} :
            /\ ~r.raised
            /\ r.value \in DOMAIN live
            /\ live[r.value] = LiveMin

\* C2: whenever some entry is live, pop_max and peek_max succeed and return a
\* payload whose priority is the greatest live priority.
C2_MaxIsLiveMaximum ==
    DOMAIN live # {} =>
        \A r \in {pop_max(Self), peek_max(Self)} :
            /\ ~r.raised
            /\ r.value \in DOMAIN live
            /\ live[r.value] = LiveMax

\* C3: after N pushes of distinct payloads into a fresh unbounded queue, the
\* pops all succeed, consecutive pop_min calls return payloads in
\* non-decreasing order of pushed priority and consecutive pop_max calls in
\* non-increasing order.
PushedPriority(item) ==
    LET i == CHOOSE k \in 1..Len(pushed) : pushed[k][1] = item
    IN pushed[i][2]

C3_RoundTripSorted ==
    /\ \A i \in 1..Len(popped) : popped[i] # "KeyError"
    /\ \A i \in 1..(Len(popped) - 1) :
          /\ last.op = "pop_min" =>
                PushedPriority(popped[i]) <= PushedPriority(popped[i + 1])
          /\ last.op = "pop_max" =>
                PushedPriority(popped[i]) >= PushedPriority(popped[i + 1])

\* C4: len() equals the number of keys of the entry index and the number of
\* non-tombstoned entries in the heap array, and every indexed entry occurs
\* in the array exactly once.
C4_CountConsistency ==
    /\ n_items = Cardinality(DOMAIN entry_finder)
    /\ n_items = Cardinality(NonTombstoned(pq))
    /\ \A x \in DOMAIN entry_finder :
          Cardinality({i \in 1..Len(pq) : pq[i] = entry_finder[x]}) = 1

\* A failing call has just returned on a queue that holds live entries and
\* tombstones.
C4_Witness ==
    /\ last.result = "KeyError"
    /\ n_items >= 1
    /\ Tombstones(pq) # {}

\* C5: with a positive capacity, len() never exceeds it.
C5_CapacityBound ==
    (maxlen # None /\ maxlen[1] > 0) => n_items <= maxlen[1]

\* A push has just evicted an entry of a full queue.
C5_Witness ==
    /\ AtCapacity
    /\ last.op = "push"
    /\ last.branch = "evict"

\* C6: in keep-highest mode a push of a new payload onto a full queue with a
\* priority above the live minimum evicts an entry of least live priority
\* and inserts the new one; and after pushes of distinct payloads with
\* distinct priorities the live set is the maxlen highest pairs pushed.
PushedPairs == {pushed[i] : i \in 1..Len(pushed)}
LivePairs == {<<x, live[x]>> : x \in DOMAIN live}
DistinctPushes ==
    /\ Len(pushed) = counter
    /\ \A i, j \in 1..Len(pushed) :
          i # j => (pushed[i][1] # pushed[j][1] /\ pushed[i][2] # pushed[j][2])

C6_KeepHighest ==
    (mode = "max" /\ maxlen # None /\ maxlen[1] > 0) =>
        /\ AtCapacity =>
              \A item \in Payloads \ DOMAIN live, priority \in Priorities :
                  priority > LiveMin =>
                      LET r == push(Self, item, priority, maxlen, mode)
                      IN /\ r.branch = "evict"
                         /\ r.evicted \in DOMAIN live
                         /\ live[r.evicted] = LiveMin
                         /\ DOMAIN r.self.entry_finder =
                               ((DOMAIN live) \ {r.evicted}) \cup {item}
                         /\ r.self.entry_finder[item].priority = priority
        /\ DistinctPushes =>
              LivePairs = {pr \in PushedPairs :
                             Cardinality({o \in PushedPairs : o[2] > pr[2]}) < maxlen[1]}

\* C7: in keep-lowest mode a push of a new payload onto a full queue with a
\* priority below the live maximum evicts an entry of greatest live priority
\* and inserts the new one; and after pushes of distinct payloads with
\* distinct priorities the live set is the maxlen lowest pairs pushed.
C7_KeepLowest ==
    (mode = "min" /\ maxlen # None /\ maxlen[1] > 0) =>
        /\ AtCapacity =>
              \A item \in Payloads \ DOMAIN live, priority \in Priorities :
                  priority < LiveMax =>
                      LET r == push(Self, item, priority, maxlen, mode)
                      IN /\ r.branch = "evict"
                         /\ r.evicted \in DOMAIN live
                         /\ live[r.evicted] = LiveMax
                         /\ DOMAIN r.self.entry_finder =
                               ((DOMAIN live) \ {r.evicted}) \cup {item}
                         /\ r.self.entry_finder[item].priority = priority
        /\ DistinctPushes =>
              LivePairs = {pr \in PushedPairs :
                             Cardinality({o \in PushedPairs : o[2] < pr[2]}) < maxlen[1]}

\* C8: a push of a new payload onto a full queue with a priority not strictly
\* better than the live minimum (keep-highest) or maximum (keep-lowest) does
\* not raise and leaves len(), the live payloads and their priorities and
\* sequence numbers as they were.
NotBetter(priority) ==
    IF mode = "max" THEN priority <= LiveMin ELSE priority >= LiveMax

LiveEntries(h) == {h[i] : i \in NonTombstoned(h)}

C8_DropIsNoOp ==
    AtCapacity =>
        \A item \in Items \ DOMAIN live, priority \in Priorities :
            NotBetter(priority) =>
                LET r == push(Self, item, priority, maxlen, mode)
                IN /\ ~r.raised
                   /\ r.self.n_items = n_items
                   /\ r.self.entry_finder = entry_finder
                   /\ LiveEntries(r.self.pq) = LiveEntries(pq)

\* A push whose priority ties with the eviction threshold has just been
\* dropped.
C8_Witness ==
    /\ AtCapacity
    /\ last.op = "push"
    /\ last.branch = "drop"
    /\ last.result = "None"
    /\ last.item \notin DOMAIN live
    /\ last.priority = (IF mode = "max" THEN LiveMin ELSE LiveMax)

\* C9: pushing a live payload again with priority p, directly or after
\* removing it, leaves exactly one live entry for it, with priority p; on an
\* unbounded queue len() is unchanged; the snapshot holds one triple for it;
\* later pops return it at most once, and not where its old priority would
\* place it when its new priority places it elsewhere.
PlacedBy(self, drained, j, priority) ==
    /\ \A i \in 1..(j - 1) : self.entry_finder[drained[i]].priority <= priority
    /\ \A i \in (j + 1)..Len(drained) : self.entry_finder[drained[i]].priority >= priority

\* As PlacedBy, for a drain from the maximum end.
PlacedByMax(self, drained, j, priority) ==
    /\ \A i \in 1..(j - 1) : self.entry_finder[drained[i]].priority >= priority
    /\ \A i \in (j + 1)..Len(drained) : self.entry_finder[drained[i]].priority <= priority

RepushedOnce(self, item, priority) ==
    /\ Cardinality({i \in 1..Len(self.pq) : self.pq[i].data = item}) = 1
    /\ \A i \in 1..Len(self.pq) :
          self.pq[i].data = item => self.pq[i].priority = priority
    /\ item \in DOMAIN self.entry_finder
    /\ self.entry_finder[item].priority = priority
    /\ maxlen = None => self.n_items = n_items
    /\ Cardinality({i \in 1..Len(items(self)) : items(self)[i][3] = item}) = 1
    /\ \A i \in 1..Len(items(self)) :
          items(self)[i][3] = item => items(self)[i][1] = priority
    /\ Cardinality({j \in 1..Len(DrainMin(self)) : DrainMin(self)[j] = item}) <= 1
    /\ Cardinality({j \in 1..Len(DrainMax(self)) : DrainMax(self)[j] = item}) <= 1

RepushedInPlace(self, item, old, priority) ==
    /\ \A j \in 1..Len(DrainMin(self)) :
          DrainMin(self)[j] = item =>
              ~(/\ PlacedBy(self, DrainMin(self), j, old)
                /\ ~PlacedBy(self, DrainMin(self), j, priority))
    /\ \A j \in 1..Len(DrainMax(self)) :
          DrainMax(self)[j] = item =>
              ~(/\ PlacedByMax(self, DrainMax(self), j, old)
                /\ ~PlacedByMax(self, DrainMax(self), j, priority))

C9_RepushReplaces ==
    \A item \in DOMAIN live, priority \in Priorities :
        \A self \in {push(Self, item, priority, maxlen, mode).self,
                     push(remove(Self, item).self, item, priority, maxlen, mode).self} :
            /\ RepushedOnce(self, item, priority)
            /\ RepushedInPlace(self, item, live[item], priority)

\* C10: remove raises KeyError for every payload that is not live.
C10_RemoveNotLiveFails ==
    \A item \in Items : item \notin DOMAIN live => remove(Self, item).raised

\* remove has just failed on a payload that is not live, on a queue that
\* holds live entries.
C10_Witness ==
    /\ last.op = "remove"
    /\ last.result = "KeyError"
    /\ last.item \notin DOMAIN live
    /\ n_items >= 1
    /\ counter > n_items

\* The results of the four extraction calls on the current queue.
Extractions == {pop_min(Self), pop_max(Self), peek_min(Self), peek_max(Self)}

\* C11: pop_min, pop_max, peek_min and peek_max fail exactly when no entry is
\* live, on an empty array and on an array of tombstones alike, and never
\* return the tombstone placeholder.
C11_EmptyFailsLiveSucceeds ==
    \A r \in Extractions :
        /\ r.raised <=> DOMAIN live = {}
        /\ r.value # REMOVED

\* The array holds tombstones only, and the four calls fail on it.
C11_Witness ==
    /\ Len(pq) > 0
    /\ NonTombstoned(pq) = {}
    /\ DOMAIN live = {}
    /\ last.op = "remove"
    /\ \A r \in Extractions : r.raised

\* C12: a call that fails leaves the heap array, the entry index and the live
\* count as they were before the call.
C12_FailureLeavesState ==
    /\ \A r \in Extractions : r.raised => r.self = Self
    /\ \A item \in Items :
          /\ remove(Self, item).raised => remove(Self, item).self = Self
          /\ \A priority \in Priorities :
                push(Self, item, priority, maxlen, mode).raised =>
                    push(Self, item, priority, maxlen, mode).self = Self

\* C13: the constructor fails, and yields no instance, exactly when the
\* capacity is given and is not a positive integer or the mode is not one of
\* the two modes.
ValidArgs(arg, md) ==
    /\ arg.type = "NoneType" \/ (arg.type = "int" /\ arg.value > 0)
    /\ md \in {"max", "min"}

C13_ConstructionValidates ==
    /\ \A arg \in MaxlenArgs, md \in ModeArgs :
          __init__(arg, md).raised <=> ~ValidArgs(arg, md)
    /\ Constructed =>
          /\ maxlen = None \/ maxlen[1] > 0
          /\ mode \in {"max", "min"}

\* C14: after pushes of distinct payloads with one priority into a fresh
\* unbounded queue, consecutive pop_min calls return the payloads in
\* insertion order and consecutive pop_max calls in reverse insertion order,
\* for every number of pushes up to SamePriorityLen.
C14_SamePriorityOrder ==
    /\ last.op = "pop_min" =>
          \A i \in 1..Len(popped) : popped[i] = pushed[i][1]
    /\ last.op = "pop_max" =>
          \A i \in 1..Len(popped) : popped[i] = pushed[Len(pushed) + 1 - i][1]

\* All of SamePriorityLen pushed payloads have been popped.
C14_Witness ==
    /\ Len(pushed) = SamePriorityLen
    /\ Len(popped) = SamePriorityLen
    /\ last.op \in {"pop_min", "pop_max"}

\* C15: items() holds exactly one (priority, sequence, payload) triple for
\* each live payload, with its priority and the sequence number of its entry
\* in the array, no triple for any other payload, and the triples are in
\* ascending order of priority.
Snapshot == items(Self)

RECURSIVE Descends(_, _)
Descends(d, i) == d > i /\ (ParentOf(d) = i \/ Descends(ParentOf(d), i))

LevelOf(i) == FloorLog2(i + 1)

HeapProperty(h) ==
    \A i, d \in 0..(Len(h) - 1) :
        Descends(d, i) =>
            IF LevelOf(i) % 2 = 0
            THEN At(h, i).priority <= At(h, d).priority
            ELSE At(h, i).priority >= At(h, d).priority

C16_MinMaxHeap ==
    /\ HeapProperty(pq)
    /\ \A i \in 0..(Len(pq) - 1) :
          /\ At(pq, 0).priority <= At(pq, i).priority
          /\ \E j \in {0, 1, 2} :
                /\ j < Len(pq)
                /\ j = 0 => Len(pq) = 1
                /\ At(pq, j).priority >= At(pq, i).priority

\* The array after the insertion of a fresh entry with the given priority.
Inserted(priority) == _heappush(pq, PQItem(priority, counter, "new"))

EqualPriorities(priority) == \A i \in 1..Len(pq) : pq[i].priority = priority

TombstoneCounts(h) == {h[i].count : i \in Tombstones(h)}

\* remove(item) on the current queue has succeeded with the result r.
RemoveEffect(item, r) ==
    /\ ~r.raised
    /\ DOMAIN r.self.entry_finder = (DOMAIN entry_finder) \ {item}
    /\ \A x \in DOMAIN r.self.entry_finder : r.self.entry_finder[x] = entry_finder[x]
    /\ r.self.n_items = n_items - 1
    /\ r.self.counter = counter
    /\ Len(r.self.pq) = Len(pq)
    /\ \A i \in 1..Len(pq) :
          IF pq[i] = entry_finder[item]
          THEN r.self.pq[i] = [pq[i] EXCEPT !.data = REMOVED]
          ELSE r.self.pq[i] = pq[i]

\* A step that takes a tombstone out of the array is a pop, a peek, or a push
\* that found the queue at capacity and so peeked or popped.
ReclaimStep ==
    TombstoneCounts(pq) \ TombstoneCounts(pq') # {} =>
        \/ last'.op \in {"pop_min", "pop_max", "peek_min", "peek_max"}
        \/ last'.op = "push" /\ last'.branch \in {"evict", "drop", "raise"}

ExtractionOps == {"pop_min", "pop_max", "peek_min", "peek_max"}

\* C19: every payload a pop or peek returns was live immediately before the
\* call, so a payload that was removed, popped or evicted and not pushed
\* again is never returned, nor is the tombstone placeholder; and a popped
\* payload is not live afterwards.
C19_ReturnsOnlyLive ==
    [][(last'.op \in ExtractionOps /\ last'.result # "KeyError") =>
          /\ last'.result # REMOVED
          /\ last'.result \in DOMAIN live
          /\ last'.op \in {"pop_min", "pop_max"} => last'.result \notin DOMAIN live'
          /\ last'.op \in {"peek_min", "peek_max"} => live' = live]_vars

\* A pop has just returned a payload from an array that still holds the
\* tombstone of a removed entry, while a payload popped, removed or evicted
\* before is not live.
C19_Witness ==
    /\ last.op \in {"pop_min", "pop_max"}
    /\ last.result \in Items
    /\ Tombstones(pq) # {}
    /\ n_items >= 1
    /\ counter >= Len(pq) + 2

\* peek, peek again and pop, from one end of the current queue: the peek
\* leaves the live count and the index as they were, and the second peek and
\* the pop return the payload of the first.
PeekIsReadOnly(first, second, pop) ==
    ~first.raised =>
        /\ first.self.n_items = n_items
        /\ first.self.entry_finder = entry_finder
        /\ ~second.raised
        /\ second.value = first.value
        /\ ~pop.raised
        /\ pop.value = first.value

\* C20: a successful peek_min or peek_max leaves len() and the live payloads
\* and priorities unchanged, a second peek returns the same payload, and so
\* does a pop from the same end issued right after the peek.
C20_PeekIdempotent ==
    DOMAIN live # {} =>
        /\ PeekIsReadOnly(peek_min(Self), peek_min(peek_min(Self).self),
                          pop_min(peek_min(Self).self))
        /\ PeekIsReadOnly(peek_max(Self), peek_max(peek_max(Self).self),
                          pop_max(peek_max(Self).self))

====
